---------------------------- MODULE Spec2Model ----------------------------
(***************************************************************************)
(* A model of the guidance chatbot of src/main.py: the fixed-response      *)
(* lookup, the fuzzy corpus lookup (difflib.get_close_matches), the        *)
(* keyword classifier, and the two request handlers home() and             *)
(* teacher_input() acting on the process-wide corpus and unread counters,  *)
(* the two files behind them and the per-browser session.                  *)
(*                                                                         *)
(* Texts are sequences of one-character strings, so that strip(), lower(), *)
(* the substring test and the similarity ratio are computed as the code    *)
(* computes them.  An optional value (Python None or a value) is the empty *)
(* tuple or a one-element tuple holding the value.                         *)
(***************************************************************************)
EXTENDS Integers, Sequences, FiniteSets, TLC

(* ------------------------------ bounds --------------------------------- *)

(* The file writes (of the sheet or of the unread file) that may fail. *)
MaxFailures == 1

(* home() is not taken for an unmatched query once the responder's counter *)
(* has reached this value.                                                 *)
MaxUnread == 2

(* teacher_input() does not append once Sheet1 holds this many rows. *)
MaxRows == 5

(* The requests begun in all when requests interleave. *)
MaxRequests == 4

(* The words of the longest query classify_query is tried on by itself. *)
MaxWords == 3

(* The browser sessions (cookie jars) talking to the server. *)
Sessions == {1, 2}

(* ------------------------------ texts ---------------------------------- *)

None == <<>>

Some(v) == <<v>>

Whitespace == {" ", "\t", "\n"}

UpperCase == <<"A","B","C","D","E","F","G","H","I","J","K","L","M",
               "N","O","P","Q","R","S","T","U","V","W","X","Y","Z">>

LowerCase == <<"a","b","c","d","e","f","g","h","i","j","k","l","m",
               "n","o","p","q","r","s","t","u","v","w","x","y","z">>

(* The characters of the model's texts in code-point order (str comparison). *)
CharOrder == <<" ", "!", "'", ",", ".", "?">> \o UpperCase \o LowerCase

Ord(c) == CHOOSE i \in 1..Len(CharOrder) : CharOrder[i] = c

(* The lower-case letter of each upper-case letter. *)
UpperToLower ==
  "A" :> "a" @@ "B" :> "b" @@ "C" :> "c" @@ "D" :> "d" @@ "E" :> "e" @@ "F" :> "f" @@
  "G" :> "g" @@ "H" :> "h" @@ "I" :> "i" @@ "J" :> "j" @@ "K" :> "k" @@ "L" :> "l" @@
  "M" :> "m" @@ "N" :> "n" @@ "O" :> "o" @@ "P" :> "p" @@ "Q" :> "q" @@ "R" :> "r" @@
  "S" :> "s" @@ "T" :> "t" @@ "U" :> "u" @@ "V" :> "v" @@ "W" :> "w" @@ "X" :> "x" @@
  "Y" :> "y" @@ "Z" :> "z"

(* str.lower() on one character. *)
LowerChar(c) == IF c \in DOMAIN UpperToLower THEN UpperToLower[c] ELSE c

(* str.lower() *)
RECURSIVE Lower(_)
Lower(s) == IF s = <<>> THEN <<>> ELSE <<LowerChar(Head(s))>> \o Lower(Tail(s))

RECURSIVE LStrip(_)
LStrip(s) ==
  IF s = <<>> THEN s
  ELSE IF Head(s) \in Whitespace THEN LStrip(Tail(s)) ELSE s

RECURSIVE RStrip(_)
RStrip(s) ==
  IF s = <<>> THEN s
  ELSE IF s[Len(s)] \in Whitespace THEN RStrip(SubSeq(s, 1, Len(s) - 1)) ELSE s

(* str.strip() *)
Strip(s) == RStrip(LStrip(s))

(* keyword in query: the substring test *)
Contains(keyword, query) ==
  \E i \in 0..(Len(query) - Len(keyword)) :
     SubSeq(query, i + 1, i + Len(keyword)) = keyword

(* Tuple order of Python strings: s < t. *)
RECURSIVE StrLess(_, _)
StrLess(s, t) ==
  IF t = <<>> THEN FALSE
  ELSE IF s = <<>> THEN TRUE
  ELSE IF Head(s) = Head(t) THEN StrLess(Tail(s), Tail(t))
  ELSE Ord(Head(s)) < Ord(Head(t))

(* ------------------------- the program's tables ------------------------ *)

(* labels, src/main.py:19-25 *)
labels ==
  [d \in {"Admission", "Scholarship", "Student Affairs", "Academics", "Migration"} |->
     CASE d = "Admission" -> "Dr Gohar"
       [] d = "Scholarship" -> "Dr Naeem"
       [] d = "Student Affairs" -> "Sir Sibtual Hassan"
       [] d = "Academics" -> "Teacher Kinza"
       [] d = "Migration" -> "Dr Asim Zeb"]

Teachers == {labels[d] : d \in DOMAIN labels}

(* common_responses, src/main.py:49-63: the fixed phrases and their canned replies, *)
(* in declaration order, each text as its sequence of characters.                  *)
common_responses ==
  <<
    \* hi  ->  Hello! How can I assist you today?
    <<<<"h","i">>,
      <<"H","e","l","l","o","!"," ","H","o","w"," ","c","a","n"," ","I"," ","a","s","s","i","s","t"," ","y","o","u"," ","t","o","d","a","y","?">>>>,
    \* hello  ->  Hi there! What can I do for you?
    <<<<"h","e","l","l","o">>,
      <<"H","i"," ","t","h","e","r","e","!"," ","W","h","a","t"," ","c","a","n"," ","I"," ","d","o"," ","f","o","r"," ","y","o","u","?">>>>,
    \* hey  ->  Hey! How can I help you?
    <<<<"h","e","y">>,
      <<"H","e","y","!"," ","H","o","w"," ","c","a","n"," ","I"," ","h","e","l","p"," ","y","o","u","?">>>>,
    \* good morning  ->  Good morning! How can I assist you today?
    <<<<"g","o","o","d"," ","m","o","r","n","i","n","g">>,
      <<"G","o","o","d"," ","m","o","r","n","i","n","g","!"," ","H","o","w"," ","c","a","n"," ","I"," ","a","s","s","i","s","t"," ","y","o","u"," ","t","o","d","a","y","?">>>>,
    \* good afternoon  ->  Good afternoon! What can I do for you?
    <<<<"g","o","o","d"," ","a","f","t","e","r","n","o","o","n">>,
      <<"G","o","o","d"," ","a","f","t","e","r","n","o","o","n","!"," ","W","h","a","t"," ","c","a","n"," ","I"," ","d","o"," ","f","o","r"," ","y","o","u","?">>>>,
    \* good evening  ->  Good evening! How can I help you?
    <<<<"g","o","o","d"," ","e","v","e","n","i","n","g">>,
      <<"G","o","o","d"," ","e","v","e","n","i","n","g","!"," ","H","o","w"," ","c","a","n"," ","I"," ","h","e","l","p"," ","y","o","u","?">>>>,
    \* bye  ->  Goodbye! Have a great day!
    <<<<"b","y","e">>,
      <<"G","o","o","d","b","y","e","!"," ","H","a","v","e"," ","a"," ","g","r","e","a","t"," ","d","a","y","!">>>>,
    \* goodbye  ->  See you later! Take care!
    <<<<"g","o","o","d","b","y","e">>,
      <<"S","e","e"," ","y","o","u"," ","l","a","t","e","r","!"," ","T","a","k","e"," ","c","a","r","e","!">>>>,
    \* thank you  ->  You're welcome!
    <<<<"t","h","a","n","k"," ","y","o","u">>,
      <<"Y","o","u","'","r","e"," ","w","e","l","c","o","m","e","!">>>>,
    \* thanks  ->  You're welcome!
    <<<<"t","h","a","n","k","s">>,
      <<"Y","o","u","'","r","e"," ","w","e","l","c","o","m","e","!">>>>,
    \* welcome  ->  Thank you! How can I assist you further?
    <<<<"w","e","l","c","o","m","e">>,
      <<"T","h","a","n","k"," ","y","o","u","!"," ","H","o","w"," ","c","a","n"," ","I"," ","a","s","s","i","s","t"," ","y","o","u"," ","f","u","r","t","h","e","r","?">>>>,
    \* how are you  ->  I'm just a bot, but I'm here to help you! How can I assist you today?
    <<<<"h","o","w"," ","a","r","e"," ","y","o","u">>,
      <<"I","'","m"," ","j","u","s","t"," ","a"," ","b","o","t",","," ","b","u","t"," ","I","'","m"," ","h","e","r","e"," ","t","o"," ","h","e","l","p"," ","y","o","u","!"," ","H","o","w"," ","c","a","n"," ","I"," ","a","s","s","i","s","t"," ","y","o","u"," ","t","o","d","a","y","?">>>>,
    \* what's up  ->  Not much, just here to help you! What can I do for you?
    <<<<"w","h","a","t","'","s"," ","u","p">>,
      <<"N","o","t"," ","m","u","c","h",","," ","j","u","s","t"," ","h","e","r","e"," ","t","o"," ","h","e","l","p"," ","y","o","u","!"," ","W","h","a","t"," ","c","a","n"," ","I"," ","d","o"," ","f","o","r"," ","y","o","u","?">>>>
  >>

(* domain_keywords, src/main.py:65-71: the domains in declaration order, each with *)
(* its keyword list.                                                               *)
domain_keywords ==
  <<
    [domain |-> "Admission", keywords |-> <<
       <<"a","d","m","i","s","s","i","o","n">>,  \* admission
       <<"a","d","m","i","t">>,  \* admit
       <<"a","p","p","l","y">>,  \* apply
       <<"f","o","r","m">>,  \* form
       <<"t","e","s","t">>,  \* test
       <<"d","o","c","u","m","e","n","t">>,  \* document
       <<"v","e","r","i","f","i","c","a","t","i","o","n">>,  \* verification
       <<"e","l","i","g","i","b","i","l","i","t","y">>,  \* eligibility
       <<"d","e","a","d","l","i","n","e">>   \* deadline
    >>],
    [domain |-> "Scholarship", keywords |-> <<
       <<"s","c","h","o","l","a","r","s","h","i","p">>,  \* scholarship
       <<"f","i","n","a","n","c","i","a","l"," ","a","i","d">>,  \* financial aid
       <<"g","r","a","n","t">>,  \* grant
       <<"f","u","n","d","i","n","g">>,  \* funding
       <<"t","u","i","t","i","o","n">>,  \* tuition
       <<"d","i","s","c","o","u","n","t">>,  \* discount
       <<"f","e","e"," ","w","a","i","v","e","r">>   \* fee waiver
    >>],
    [domain |-> "Student Affairs", keywords |-> <<
       <<"e","v","e","n","t">>,  \* event
       <<"c","l","u","b">>,  \* club
       <<"e","x","t","r","a","c","u","r","r","i","c","u","l","a","r">>,  \* extracurricular
       <<"a","c","t","i","v","i","t","y">>,  \* activity
       <<"e","n","g","a","g","e","m","e","n","t">>,  \* engagement
       <<"s","t","u","d","e","n","t"," ","l","i","f","e">>,  \* student life
       <<"h","o","s","t","e","l">>,  \* hostel
       <<"f","a","c","i","l","i","t","y">>   \* facility
    >>],
    [domain |-> "Academics", keywords |-> <<
       <<"e","x","a","m">>,  \* exam
       <<"c","o","u","r","s","e">>,  \* course
       <<"g","r","a","d","e">>,  \* grade
       <<"a","t","t","e","n","d","a","n","c","e">>,  \* attendance
       <<"s","y","l","l","a","b","u","s">>,  \* syllabus
       <<"r","e","s","u","l","t">>,  \* result
       <<"a","c","a","d","e","m","i","c">>,  \* academic
       <<"l","e","c","t","u","r","e">>,  \* lecture
       <<"a","s","s","i","g","n","m","e","n","t">>   \* assignment
    >>],
    [domain |-> "Migration", keywords |-> <<
       <<"m","i","g","r","a","t","i","o","n">>,  \* migration
       <<"t","r","a","n","s","f","e","r">>,  \* transfer
       <<"r","e","l","o","c","a","t","i","o","n">>,  \* relocation
       <<"v","i","s","a">>,  \* visa
       <<"i","m","m","i","g","r","a","t","i","o","n">>,  \* immigration
       <<"i","n","t","e","r","n","a","t","i","o","n","a","l">>,  \* international
       <<"a","b","r","o","a","d">>   \* abroad
    >>]
  >>

(* common_responses.keys() *)
CommonKeys == {common_responses[i][1] : i \in 1..Len(common_responses)}

(* The question looked up among the responses instead of the keys. *)
InCommon_values(question) ==
  \E i \in 1..Len(common_responses) : common_responses[i][2] = question

(* question in common_responses *)
InCommon(question) == question \in CommonKeys

(* common_responses[question] *)
CommonResponse(question) ==
  common_responses[CHOOSE i \in 1..Len(common_responses) :
                     common_responses[i][1] = question][2]

(* ---------------------- difflib.get_close_matches ---------------------- *)
(* SequenceMatcher with isjunk=None; the autojunk heuristic only acts on   *)
(* a second sequence of 200 or more elements, longer than any text here.   *)

(* The length of the common run of a from i and b from j, inside the       *)
(* windows that end at ahi and bhi.                                        *)
RECURSIVE RunLen(_, _, _, _, _, _)
RunLen(a, b, i, j, ahi, bhi) ==
  IF i > ahi \/ j > bhi THEN 0
  ELSE IF a[i] # b[j] THEN 0
  ELSE 1 + RunLen(a, b, i + 1, j + 1, ahi, bhi)

(* F(v) with v computed once, as a Python local holds a computed value. *)
With(v, F(_)) == CHOOSE r \in {F(x) : x \in {v}} : TRUE

(* SequenceMatcher.find_longest_match: the longest block a[i..i+k) =       *)
(* b[j..j+k) in a[alo..ahi], b[blo..bhi]; of the longest, the one that     *)
(* starts earliest in a, and of those the one that starts earliest in b.   *)
find_longest_match(a, b, alo, ahi, blo, bhi) ==
  With({[i |-> i, j |-> j, size |-> RunLen(a, b, i, j, ahi, bhi)] :
           i \in alo..ahi, j \in blo..bhi},
       LAMBDA blocks :
         IF \A m \in blocks : m.size = 0
         THEN [i |-> alo, j |-> blo, size |-> 0]
         ELSE CHOOSE m \in blocks :
                \A r \in blocks :
                   \/ r.size < m.size
                   \/ /\ r.size = m.size
                      /\ m.i < r.i \/ (m.i = r.i /\ m.j <= r.j))

(* The sum of the sizes of SequenceMatcher.get_matching_blocks: the        *)
(* longest block, then the same to its left and to its right.              *)
RECURSIVE matches(_, _, _, _, _, _)
matches(a, b, alo, ahi, blo, bhi) ==
  With(find_longest_match(a, b, alo, ahi, blo, bhi),
       LAMBDA m :
         IF m.size = 0 THEN 0
         ELSE m.size
              + matches(a, b, alo, m.i - 1, blo, m.j - 1)
              + matches(a, b, m.i + m.size, ahi, m.j + m.size, bhi))

(* SequenceMatcher.ratio() as the fraction num/den: 2.0*matches/length,    *)
(* and 1.0 when both texts are empty.                                      *)
ratio(a, b) ==
  IF Len(a) + Len(b) = 0 THEN [num |-> 1, den |-> 1]
  ELSE [num |-> 2 * matches(a, b, 1, Len(a), 1, Len(b)), den |-> Len(a) + Len(b)]

(* ratio >= cutoff, for the cutoff 0.6 = 3/5 of get_answer_from_dataset.   *)
(* real_quick_ratio and quick_ratio are upper bounds of ratio, so the      *)
(* three tests of get_close_matches pass exactly when this one does.       *)
AboveCutoff(r) == 5 * r.num >= 3 * r.den

(* (score, x) < (score2, y), the tuple order heapq.nlargest uses *)
ScoredLess(r, x, s, y) ==
  \/ r.num * s.den < s.num * r.den
  \/ r.num * s.den = s.num * r.den /\ StrLess(x, y)

(* get_close_matches(word, possibilities, n=1, cutoff=0.6): the candidates *)
(* at or above the cutoff, and of them the largest (score, text); a list   *)
(* of none or one, here an optional.                                       *)
get_close_matches(word, possibilities) ==
  With({[score |-> ratio(x, word), x |-> x] : x \in possibilities},
       LAMBDA scored :
         LET result == {c \in scored : AboveCutoff(c.score)}
         IN IF result = {} THEN None
            ELSE Some((CHOOSE c \in result :
                         \A d \in result :
                            d = c \/ ScoredLess(d.score, d.x, c.score, c.x)).x))

(* get_answer_from_dataset, src/main.py:73-77, over the corpus dict *)
get_answer_from_dataset(question, dict) ==
  With(get_close_matches(question, DOMAIN dict),
       LAMBDA found : IF found # None THEN Some(dict[found[1]]) ELSE None)

(* ----------------------------- classify_query -------------------------- *)

(* The count of one domain after the inner loop of src/main.py:84-86: the  *)
(* number of the domain's keywords that occur in the query.                *)
match_count(keywords, query) ==
  Cardinality({k \in 1..Len(keywords) : Contains(keywords[k], query)})

(* domain_match_counts after the loops of src/main.py:83-86, in the order  *)
(* of the domains.                                                         *)
RECURSIVE domain_match_counts(_, _)
domain_match_counts(domains, query) ==
  IF domains = <<>> THEN <<>>
  ELSE <<match_count(Head(domains).keywords, query)>>
       \o domain_match_counts(Tail(domains), query)

(* max(domain_match_counts.values()) *)
max_matches(c) == CHOOSE m \in {c[d] : d \in DOMAIN c} : \A d \in DOMAIN c : c[d] <= m

(* The last domain, in declaration order, whose count is the maximum. *)
best_of_last(c) ==
  LET m == max_matches(c)
  IN IF m > 0
     THEN LET best == CHOOSE d \in DOMAIN c :
                        c[d] = m /\ \A e \in DOMAIN c : c[e] = m => e <= d
              best_domain == domain_keywords[best].domain
          IN [domain |-> best_domain, teacher |-> labels[best_domain]]
     ELSE [domain |-> "Student Affairs", teacher |-> labels["Student Affairs"]]

(* src/main.py:88-96: the first domain, in declaration order, whose count  *)
(* is the maximum, when that is above 0; Student Affairs otherwise.        *)
best_of(c) ==
  LET m == max_matches(c)
  IN IF m > 0
     THEN LET best == CHOOSE d \in DOMAIN c :
                        c[d] = m /\ \A e \in DOMAIN c : c[e] = m => d <= e
              best_domain == domain_keywords[best].domain
          IN [domain |-> best_domain, teacher |-> labels[best_domain]]
     ELSE [domain |-> "Student Affairs", teacher |-> labels["Student Affairs"]]

(* classify_query, src/main.py:79-96 *)
classify_query(query) == best_of(domain_match_counts(domain_keywords, Lower(query)))

(* ------------------------------- inputs -------------------------------- *)

(* The student_query form values tried: blank, a greeting, a question with *)
(* a keyword (in upper case), and one close to a question of the corpus.   *)
Queries ==
  { <<" ", " ">>,
    <<"H","i"," ">>,
    <<"E","X","A","M">>,
    <<"f","e","e","s">> }

(* The teacher_response form values tried: blank and two answers. *)
Responses ==
  { <<" ">>,
    <<"o","k"," ">>,
    <<"n","o">> }

(* The teacher URL parameter: absent, each responder, and an unknown name. *)
Selections == {None} \cup {Some(t) : t \in Teachers} \cup {Some("Nobody")}

(* ------------------------------- state --------------------------------- *)

VARIABLES
  qa_dict,          \* the corpus in memory: question -> answer
  sheet1,           \* the rows of Sheet1 of DATASET_CLEANED.xlsx
  unread_messages,  \* the counters in memory: responder -> count
  unread_file,      \* unread_messages.json: absent or the dict saved last
  session,          \* per browser: unanswered_question, assigned_teacher, bot_response
  routed,           \* history: unmatched queries counted for a responder since its last reset
  thread,           \* per session: where its request in progress stands, and its locals
  started,          \* history: the requests begun so far, when requests interleave
  failures,         \* history: the file writes that have failed so far
  last              \* history: the request handled last and how it ended

vars == <<qa_dict, sheet1, unread_messages, unread_file, session, routed,
          thread, started, failures, last>>

(* dict.get(key, default) *)
Get(d, k, default) == IF k \in DOMAIN d THEN d[k] ELSE default

(* d[k] = v on a dict *)
Put(d, k, v) == [x \in DOMAIN d \cup {k} |-> IF x = k THEN v ELSE d[x]]

(* Python truthiness of an optional text: neither None nor empty *)
Truthy(opt) == opt # None /\ opt[1] # <<>>

(* Python truthiness of an optional name *)
TruthyName(opt) == opt # None /\ opt[1] # ""

(* A page that shows no pending question. *)
NoShow == [assigned_teacher |-> None, question |-> None]

(* The rows Sheet1 holds when the server starts: a question in lower case, *)
(* one that is also a fixed-response key, and one in upper case.           *)
InitialRows ==
  << << <<"f","e","e">>, <<"f","r","e","e">> >>,
     << <<"h","i">>, <<"y","o">> >>,
     << <<"E","X","A","M">>, <<"s","o","o","n">> >> >>

(* src/main.py:30-36: the dict built from the sheets' rows, a later row    *)
(* for the same question replacing an earlier one; rows with a blank       *)
(* question are dropped.                                                   *)
RECURSIVE LoadRows(_, _)
LoadRows(rows, dict) ==
  IF rows = <<>> THEN dict
  ELSE LoadRows(Tail(rows),
                IF Strip(Head(rows)[1]) # <<>>
                THEN Put(dict, Head(rows)[1], Head(rows)[2])
                ELSE dict)

EmptyDict == [x \in {} |-> <<>>]

(* A request thread that handles no request. *)
Idle == [pc |-> "idle", count |-> 0, rows |-> <<>>, buffer |-> None, response |-> <<>>]

EmptySession ==
  [unanswered_question |-> None, assigned_teacher |-> None, bot_response |-> <<>>]

(* The record of a handled request: the handler, the session, the posted   *)
(* text after strip() (and lower()), and how the request ended: a page, a  *)
(* redirect, or an error response after the sheet write or the save of     *)
(* the counters raised.                                                    *)
Handled(op, s, text, status) ==
  [op |-> op, sid |-> s, text |-> text, status |-> status]

(* The module-level code of src/main.py:30-43 on a first start: the corpus *)
(* loaded, no unread file yet, every counter 0, no browser has a cookie.   *)
Init ==
  /\ sheet1 = InitialRows
  /\ qa_dict = LoadRows(InitialRows, EmptyDict)
  /\ unread_messages = [t \in Teachers |-> 0]
  /\ unread_file = None
  /\ session = [s \in Sessions |-> EmptySession]
  /\ routed = [t \in Teachers |-> 0]
  /\ thread = [s \in Sessions |-> Idle]
  /\ started = 0
  /\ failures = 0
  /\ last = Handled("start", 0, <<>>, "page")

(* save_unread_messages, src/main.py:45-47: the file after the call, given *)
(* the dict it dumps, the file before, and whether the write succeeds (it  *)
(* raises otherwise, the file as it was).                                  *)
save_unread_messages(dict, file, save_ok) == IF save_ok THEN Some(dict) ELSE file

(* A file write that raises is counted, and none raises once MaxFailures   *)
(* have.  A handler that runs as a whole leaves no request in progress.    *)
failed_write(raised) ==
  /\ IF raised THEN failures < MaxFailures /\ failures' = failures + 1
     ELSE failures' = failures
  /\ UNCHANGED <<thread, started>>

(* ------------------------------- home() -------------------------------- *)

(* GET /, src/main.py:100,119: shows the session's last bot response. *)
home_get(s) ==
  /\ last' = Handled("home_get", s, <<>>, "page")
  /\ UNCHANGED <<qa_dict, sheet1, unread_messages, unread_file, session, routed,
                 thread, started, failures>>

(* The reply that also drops the session's pending query. *)
home_reply_clearing_pending(s, question, chatbot_response) ==
  /\ session' = [session EXCEPT ![s] =
        [unanswered_question |-> None, assigned_teacher |-> None,
         bot_response |-> chatbot_response]]
  /\ last' = Handled("home_post", s, question, "page")
  /\ UNCHANGED <<qa_dict, sheet1, unread_messages, unread_file, routed,
                 thread, started, failures>>

(* src/main.py:104-109,118-119: a fixed response or a corpus answer is     *)
(* stored in the session and shown.                                        *)
home_reply(s, question, chatbot_response) ==
  /\ session' = [session EXCEPT ![s].bot_response = chatbot_response]
  /\ last' = Handled("home_post", s, question, "page")
  /\ UNCHANGED <<qa_dict, sheet1, unread_messages, unread_file, routed,
                 thread, started, failures>>

(* The increment applied twice. *)
increment_unread_twice(dict, teacher) == Put(dict, teacher, Get(dict, teacher, 0) + 2)

(* src/main.py:115: unread_messages[teacher] = unread_messages.get(teacher, 0) + 1 *)
increment_unread(dict, teacher) == Put(dict, teacher, Get(dict, teacher, 0) + 1)

(* src/main.py:111-117: the query is classified, made the session's        *)
(* pending question, counted for the responder and the counters saved.     *)
(* When the save raises, the request ends in an error after the session    *)
(* and the counter were changed; the changed session still goes out with   *)
(* the error response.                                                     *)
submit_unmatched(s, question, save_ok) ==
  \E teacher \in {classify_query(question).teacher} :
     /\ Get(unread_messages, teacher, 0) < MaxUnread
     /\ failed_write(~save_ok)
     /\ session' = [session EXCEPT ![s].unanswered_question = Some(question),
                                   ![s].assigned_teacher = Some(teacher)]
     /\ unread_messages' = increment_unread(unread_messages, teacher)
     /\ routed' = [routed EXCEPT ![teacher] = @ + 1]
     /\ unread_file' = save_unread_messages(unread_messages', unread_file, save_ok)
     /\ last' = Handled("home_post", s, question,
                        IF save_ok THEN "redirect" ELSE "save_error")
     /\ UNCHANGED <<qa_dict, sheet1>>

(* POST /, src/main.py:101-119 (save_ok is read by the last branch only    *)
(* and fixed in the others)                                                *)
home_post(s, student_query, save_ok) ==
  \E question \in {Lower(Strip(student_query))} :
     IF InCommon(question)
     THEN save_ok /\ home_reply(s, question, CommonResponse(question))
     ELSE \E found \in {get_answer_from_dataset(question, qa_dict)} :
             IF Truthy(found)
             THEN save_ok /\ home_reply(s, question, found[1])
             ELSE submit_unmatched(s, question, save_ok)

(* --------------------------- teacher_input() --------------------------- *)

(* src/main.py:334-348: what the teacher page shows for the selected       *)
(* responder: the session's question and responder, or neither.            *)
peek(s, selected_teacher) ==
  LET assigned_teacher == session[s].assigned_teacher
      question == session[s].unanswered_question
  IN IF TruthyName(selected_teacher) /\ Get(unread_messages, selected_teacher[1], 0) > 0
     THEN IF selected_teacher = assigned_teacher /\ Truthy(question)
          THEN [assigned_teacher |-> selected_teacher, question |-> question]
          ELSE NoShow
     ELSE NoShow

(* The page of src/main.py:350-356, which changes nothing. *)
teacher_page(s, op, text) ==
  /\ last' = Handled(op, s, text, "page")
  /\ UNCHANGED <<qa_dict, sheet1, unread_messages, unread_file, session, routed,
                 thread, started, failures>>

(* GET /teacher *)
teacher_get(s) == teacher_page(s, "teacher_get", <<>>)

(* The test without its check of the response. *)
answerable_any_response(s, response) ==
  /\ TruthyName(session[s].assigned_teacher)
  /\ Truthy(session[s].unanswered_question)

(* src/main.py:313: the test that lets a posted response be stored *)
answerable(s, response) ==
  /\ response # <<>>
  /\ TruthyName(session[s].assigned_teacher)
  /\ Truthy(session[s].unanswered_question)

(* The answer stored only for a question the dict does not hold yet. *)
store_answer_keep_first(dict, question, response) ==
  IF question \in DOMAIN dict THEN dict ELSE Put(dict, question, response)

(* src/main.py:324: qa_dict[question] = response *)
store_answer(dict, question, response) == Put(dict, question, response)

(* Every counter reset, not only the assigned responder's. *)
reset_unread_all(dict, teacher) == [t \in DOMAIN dict |-> 0]

(* The counter taken down by one instead of reset. *)
reset_unread_decrement(dict, teacher) == Put(dict, teacher, Get(dict, teacher, 0) - 1)

(* The reset left out. *)
reset_unread_skipped(dict, teacher) == dict

(* src/main.py:326: unread_messages[assigned_teacher] = 0 *)
reset_unread(dict, teacher) == Put(dict, teacher, 0)

(* The handler with the dicts updated before the sheet is written, so     *)
(* that a failed sheet write leaves them changed.                          *)
answer_memory_first(s, response, append_ok, save_ok) ==
  LET teacher == session[s].assigned_teacher[1]
      question == session[s].unanswered_question[1]
  IN /\ Len(sheet1) < MaxRows
     /\ failed_write(~append_ok \/ ~save_ok)
     /\ qa_dict' = store_answer(qa_dict, question, response)
     /\ unread_messages' = Put(unread_messages, teacher, 0)
     /\ routed' = [routed EXCEPT ![teacher] = 0]
     /\ IF ~append_ok
        THEN /\ save_ok
             /\ last' = Handled("teacher_post", s, response, "append_error")
             /\ UNCHANGED <<sheet1, unread_file, session>>
        ELSE /\ sheet1' = Append(sheet1, <<question, response>>)
             /\ unread_file' = save_unread_messages(unread_messages', unread_file, save_ok)
             /\ IF save_ok
                THEN /\ session' = [session EXCEPT ![s] =
                          [unanswered_question |-> None, assigned_teacher |-> None,
                           bot_response |-> response]]
                     /\ last' = Handled("teacher_post", s, response, "redirect")
                ELSE /\ session' = session
                     /\ last' = Handled("teacher_post", s, response, "save_error")

(* src/main.py:314-332: the row is appended to Sheet1 and the sheet        *)
(* rewritten, the corpus dict updated, the responder's counter reset and   *)
(* saved, the session's pending question dropped.  An exception of the     *)
(* sheet write or of the save ends the request where it is raised.         *)
answer(s, response, append_ok, save_ok) ==
  LET teacher == session[s].assigned_teacher[1]
      question == session[s].unanswered_question[1]
  IN /\ Len(sheet1) < MaxRows
     /\ failed_write(~append_ok \/ ~save_ok)
     /\ IF ~append_ok
        THEN /\ save_ok
             /\ last' = Handled("teacher_post", s, response, "append_error")
             /\ UNCHANGED <<qa_dict, sheet1, unread_messages, unread_file, session, routed>>
        ELSE /\ sheet1' = Append(sheet1, <<question, response>>)
             /\ qa_dict' = store_answer(qa_dict, question, response)
             /\ unread_messages' = reset_unread(unread_messages, teacher)
             /\ routed' = [routed EXCEPT ![teacher] = 0]
             /\ unread_file' = save_unread_messages(unread_messages', unread_file, save_ok)
             /\ IF save_ok
                THEN /\ session' = [session EXCEPT ![s] =
                          [unanswered_question |-> None, assigned_teacher |-> None,
                           bot_response |-> response]]
                     /\ last' = Handled("teacher_post", s, response, "redirect")
                ELSE /\ session' = session
                     /\ last' = Handled("teacher_post", s, response, "save_error")

(* POST /teacher, src/main.py:306-356 (append_ok and save_ok are read by   *)
(* the first branch only and fixed in the other)                           *)
teacher_post(s, teacher_response, append_ok, save_ok) ==
  \E response \in {Strip(teacher_response)} :
     IF answerable(s, response)
     THEN answer(s, response, append_ok, save_ok)
     ELSE append_ok /\ save_ok /\ teacher_page(s, "teacher_post", response)

(* ------------------------- requests one at a time --------------------- *)

HomeGet == \E s \in Sessions : home_get(s)

HomePost == \E s \in Sessions, q \in Queries, ok \in BOOLEAN : home_post(s, q, ok)

TeacherGet == \E s \in Sessions : teacher_get(s)

TeacherPost ==
  \E s \in Sessions, r \in Responses, ok \in BOOLEAN, saved \in BOOLEAN :
     teacher_post(s, r, ok, saved)

Next == HomeGet \/ HomePost \/ TeacherGet \/ TeacherPost

Spec == Init /\ [][Next]_vars

(* ------------------------- requests interleaved ------------------------ *)
(* app.run serves each request on a thread of its own, and nothing in      *)
(* src/main.py locks the dicts or the files: the steps of two requests     *)
(* interleave.  A browser sends one request at a time.  The steps are the  *)
(* reads and writes of the shared dicts and files, one per step.           *)

(* A step that does not end its request. *)
Running(s) == Handled("step", s, <<>>, "running")

(* The thread of s moves to pc with its locals changed as given. *)
Goto(s, pc, count, rows, buffer, response) ==
  thread' = [thread EXCEPT ![s] = [pc |-> pc, count |-> count, rows |-> rows,
                                   buffer |-> buffer, response |-> response]]

(* POST / begins, src/main.py:101-113: a fixed response or a corpus answer *)
(* ends the request at once; an unmatched query is classified and made the *)
(* session's pending question.                                             *)
home_begin(s, student_query) ==
  /\ thread[s].pc = "idle"
  /\ started < MaxRequests
  /\ started' = started + 1
  /\ UNCHANGED <<qa_dict, sheet1, unread_messages, unread_file, routed, failures>>
  /\ \E question \in {Lower(Strip(student_query))} :
        IF InCommon(question) \/ Truthy(get_answer_from_dataset(question, qa_dict))
        THEN /\ session' = [session EXCEPT ![s].bot_response =
                              IF InCommon(question) THEN CommonResponse(question)
                              ELSE get_answer_from_dataset(question, qa_dict)[1]]
             /\ last' = Handled("home_post", s, question, "page")
             /\ UNCHANGED thread
        ELSE \E teacher \in {classify_query(question).teacher} :
                /\ Get(unread_messages, teacher, 0) < MaxUnread
                /\ session' = [session EXCEPT ![s].unanswered_question = Some(question),
                                              ![s].assigned_teacher = Some(teacher)]
                /\ Goto(s, "home_get", 0, <<>>, None, <<>>)
                /\ last' = Running(s)

(* src/main.py:115, the right-hand side: unread_messages.get(teacher, 0) *)
home_read(s) ==
  /\ thread[s].pc = "home_get"
  /\ Goto(s, "home_store", Get(unread_messages, session[s].assigned_teacher[1], 0),
          <<>>, None, <<>>)
  /\ last' = Running(s)
  /\ UNCHANGED <<qa_dict, sheet1, unread_messages, unread_file, session, routed,
                 started, failures>>

(* src/main.py:115, the store: unread_messages[teacher] = (the count read) + 1 *)
home_store(s) ==
  /\ thread[s].pc = "home_store"
  /\ unread_messages' = Put(unread_messages, session[s].assigned_teacher[1],
                            thread[s].count + 1)
  /\ routed' = [routed EXCEPT ![session[s].assigned_teacher[1]] = @ + 1]
  /\ Goto(s, "home_dump", 0, <<>>, None, <<>>)
  /\ last' = Running(s)
  /\ UNCHANGED <<qa_dict, sheet1, unread_file, session, started, failures>>

(* save_unread_messages, src/main.py:46-47: json.dump writes the dict as   *)
(* it is now into the file object's buffer.                                *)
save_dump(s, from, to) ==
  /\ thread[s].pc = from
  /\ Goto(s, to, 0, <<>>, Some(unread_messages), thread[s].response)
  /\ last' = Running(s)
  /\ UNCHANGED <<qa_dict, sheet1, unread_messages, unread_file, session, routed,
                 started, failures>>

home_dump(s) == save_dump(s, "home_dump", "home_close")

(* src/main.py:46-47,117: the with block closes the file, which writes the *)
(* buffer out, and the request ends with the redirect.                     *)
home_close(s) ==
  /\ thread[s].pc = "home_close"
  /\ unread_file' = thread[s].buffer
  /\ thread' = [thread EXCEPT ![s] = Idle]
  /\ last' = Handled("home_post", s, session[s].unanswered_question[1], "redirect")
  /\ UNCHANGED <<qa_dict, sheet1, unread_messages, session, routed, started, failures>>

(* POST /teacher begins, src/main.py:306-313: a response that cannot be    *)
(* stored gets the page at once.                                           *)
teacher_begin(s, teacher_response) ==
  /\ thread[s].pc = "idle"
  /\ started < MaxRequests
  /\ started' = started + 1
  /\ UNCHANGED <<qa_dict, sheet1, unread_messages, unread_file, session, routed, failures>>
  /\ \E response \in {Strip(teacher_response)} :
        IF answerable(s, response)
        THEN /\ Len(sheet1) < MaxRows
             /\ Goto(s, "teacher_read", 0, <<>>, None, response)
             /\ last' = Running(s)
        ELSE /\ last' = Handled("teacher_post", s, response, "page")
             /\ UNCHANGED thread

(* src/main.py:315-319: Sheet1 is read and the new row put after its rows. *)
teacher_read(s) ==
  /\ thread[s].pc = "teacher_read"
  /\ Goto(s, "teacher_write", 0,
          Append(sheet1, <<session[s].unanswered_question[1], thread[s].response>>),
          None, thread[s].response)
  /\ last' = Running(s)
  /\ UNCHANGED <<qa_dict, sheet1, unread_messages, unread_file, session, routed,
                 started, failures>>

(* src/main.py:321-324: the sheet is replaced by the rows built, and the   *)
(* corpus dict updated.                                                    *)
teacher_write(s) ==
  /\ thread[s].pc = "teacher_write"
  /\ sheet1' = thread[s].rows
  /\ qa_dict' = store_answer(qa_dict, session[s].unanswered_question[1], thread[s].response)
  /\ Goto(s, "teacher_reset", 0, <<>>, None, thread[s].response)
  /\ last' = Running(s)
  /\ UNCHANGED <<unread_messages, unread_file, session, routed, started, failures>>

(* src/main.py:326: unread_messages[assigned_teacher] = 0 *)
teacher_reset(s) ==
  /\ thread[s].pc = "teacher_reset"
  /\ unread_messages' = reset_unread(unread_messages, session[s].assigned_teacher[1])
  /\ routed' = [routed EXCEPT ![session[s].assigned_teacher[1]] = 0]
  /\ Goto(s, "teacher_dump", 0, <<>>, None, thread[s].response)
  /\ last' = Running(s)
  /\ UNCHANGED <<qa_dict, sheet1, unread_file, session, started, failures>>

teacher_dump(s) == save_dump(s, "teacher_dump", "teacher_close")

(* src/main.py:327-332: the file is closed, the session's pending question *)
(* dropped, and the request ends with the redirect.                        *)
teacher_close(s) ==
  /\ thread[s].pc = "teacher_close"
  /\ unread_file' = thread[s].buffer
  /\ session' = [session EXCEPT ![s] =
        [unanswered_question |-> None, assigned_teacher |-> None,
         bot_response |-> thread[s].response]]
  /\ thread' = [thread EXCEPT ![s] = Idle]
  /\ last' = Handled("teacher_post", s, thread[s].response, "redirect")
  /\ UNCHANGED <<qa_dict, sheet1, unread_messages, routed, started, failures>>

HomeBegin == \E s \in Sessions, q \in Queries : home_begin(s, q)

HomeStep == \E s \in Sessions : home_read(s) \/ home_store(s) \/ home_dump(s) \/ home_close(s)

TeacherBegin == \E s \in Sessions, r \in Responses : teacher_begin(s, r)

TeacherStep ==
  \E s \in Sessions :
     \/ teacher_read(s) \/ teacher_write(s) \/ teacher_reset(s)
     \/ teacher_dump(s) \/ teacher_close(s)

NextConc == HomeBegin \/ HomeStep \/ TeacherBegin \/ TeacherStep

SpecConc == Init /\ [][NextConc]_vars

(* ------------------------ classify_query on its own -------------------- *)

(* The words queries are made of: a keyword of Academics, of Migration, of *)
(* Admission, of Student Affairs (with an upper-case letter), a word that  *)
(* is no keyword, and a blank.                                             *)
ClassifyWords ==
  { <<"e","x","a","m">>, <<"v","i","s","a">>, <<"f","o","r","m">>,
    <<"C","l","u","b">>, <<"z","z">>, <<" ">> }

(* The texts of n words or fewer. *)
RECURSIVE TextsUpTo(_)
TextsUpTo(n) ==
  IF n = 0 THEN {<<>>}
  ELSE LET shorter == TextsUpTo(n - 1)
       IN shorter \cup {t \o w : t \in shorter, w \in ClassifyWords}

(* The queries classify_query is called with. *)
ClassifyInputs == TextsUpTo(MaxWords)

(* A call of classify_query(query), src/main.py:79-96: the domain and the  *)
(* teacher returned, and domain_match_counts as it is at line 88.  The     *)
(* result does not depend on the state, so one call is followed per run.   *)
classify_call(query) ==
  /\ last.op = "start"
  /\ \E result \in {classify_query(query)} :
        last' = [op |-> "classify_query", sid |-> 0, text |-> query,
                 status |-> result.domain, teacher |-> result.teacher,
                 counts |-> domain_match_counts(domain_keywords, Lower(query))]
  /\ UNCHANGED <<qa_dict, sheet1, unread_messages, unread_file, session, routed,
                 thread, started, failures>>

Classify == \E query \in ClassifyInputs : classify_call(query)

NextClassify == Classify

SpecClassify == Init /\ [][NextClassify]_vars

(* ------------------------------- claims -------------------------------- *)

(* Session s has a pending question. *)
Pending(s) == session[s].unanswered_question # None

(* C1: when a session's pending question q (an unmatched query) is         *)
(* answered with a non-empty response r, then right after the answer       *)
(* get_answer_from_dataset(q) returns r, and the assigned responder's      *)
(* unread count is 0.                                                      *)
C1_RoundTrip ==
  [][ ( /\ last'.op = "teacher_post" /\ last'.status = "redirect"
        /\ Truthy(session[last'.sid].unanswered_question)
        /\ TruthyName(session[last'.sid].assigned_teacher) )
      => /\ last'.text # <<>>
         /\ get_answer_from_dataset(session[last'.sid].unanswered_question[1], qa_dict')
              = Some(last'.text)
         /\ unread_messages'[session[last'.sid].assigned_teacher[1]] = 0 ]_vars

(* C1 happens: an answer was stored for a question that was routed, the    *)
(* lookup of the question returns it, and some session asked that question *)
(* again and was shown the answer.                                         *)
C1_Witness ==
  /\ last.op = "home_post" /\ last.status = "page"
  /\ last.text \in DOMAIN qa_dict
  /\ last.text \notin DOMAIN LoadRows(InitialRows, EmptyDict)
  /\ get_answer_from_dataset(last.text, qa_dict) = Some(session[last.sid].bot_response)
  /\ \E i \in 1..Len(sheet1) :
        sheet1[i][1] = last.text /\ sheet1[i][2] = session[last.sid].bot_response

(* C2: every responder's unread count is at least 0 and at most the number *)
(* of unmatched queries routed to the responder since the count was last   *)
(* reset by an answer (since the start if it never was).                   *)
C2_UnreadBounded ==
  \A t \in DOMAIN unread_messages :
     unread_messages[t] >= 0 /\ unread_messages[t] <= routed[t]

(* C2 happens: a responder has two queries counted, and another's count    *)
(* was reset by an answer.                                                 *)
C2_Witness ==
  /\ \E t \in Teachers : unread_messages[t] = 2
  /\ last.op = "teacher_post" /\ last.status = "redirect"

(* The sessions whose pending question is assigned to responder t. *)
PendingOn(t) == {s \in Sessions : Pending(s) /\ session[s].assigned_teacher = Some(t)}

(* C3 as claimed: every responder's unread count equals the number of      *)
(* sessions whose pending question is assigned to the responder.           *)
C3_Original ==
  \A t \in Teachers : Get(unread_messages, t, 0) = Cardinality(PendingOn(t))

(* C3 as amended: with requests handled one at a time, every responder's   *)
(* unread count equals the number of unmatched queries routed to the       *)
(* responder since an answer last reset the count (since the start if none *)
(* did).                                                                   *)
C3_Amended == \A t \in Teachers : Get(unread_messages, t, 0) = routed[t]

(* C3 happens both ways: a responder's count is 0 while a session is still *)
(* pending on the responder, after another session's answer; and another   *)
(* responder's count is above the number of sessions pending on it.        *)
C3_Witness ==
  /\ last.op = "teacher_post" /\ last.status = "redirect"
  /\ \E t \in Teachers : unread_messages[t] = 0 /\ PendingOn(t) # {}
  /\ \E t \in Teachers : unread_messages[t] > Cardinality(PendingOn(t))

(* C4 as claimed: a POST / with a query that is blank after strip()        *)
(* changes no unread count, not the corpus, and not the session's pending  *)
(* question.                                                               *)
C4_BlankQueryChangesNothing ==
  [][ (last'.op = "home_post" /\ last'.text = <<>>)
      => /\ unread_messages' = unread_messages
         /\ qa_dict' = qa_dict /\ sheet1' = sheet1
         /\ session'[last'.sid].unanswered_question = session[last'.sid].unanswered_question
         /\ session'[last'.sid].assigned_teacher = session[last'.sid].assigned_teacher ]_vars

(* C5: a POST /teacher whose response is blank after strip(), or in a      *)
(* session with no pending question, changes neither the corpus (dict and  *)
(* sheet), nor any unread count (dict and file), nor the session.          *)
C5_InvalidAnswerIsNoOp ==
  [][ ( /\ last'.op = "teacher_post"
        /\ last'.text = <<>> \/ ~Pending(last'.sid) )
      => UNCHANGED <<qa_dict, sheet1, unread_messages, unread_file, session>> ]_vars

(* C5 happens: a blank response was posted in a session with a pending     *)
(* question that a response can be stored for, and the session still has   *)
(* it.                                                                     *)
C5_Witness ==
  /\ last.op = "teacher_post" /\ last.text = <<>> /\ last.status = "page"
  /\ Truthy(session[last.sid].unanswered_question)
  /\ unread_messages[session[last.sid].assigned_teacher[1]] > 0

(* C6: when the write of Sheet1 fails during an answer, the responder's    *)
(* unread count is not reset, in the dict or in the file, the corpus dict  *)
(* is not updated, and the session's pending question is not cleared.      *)
C6_AppendFailureKeepsState ==
  [][ last'.status = "append_error"
      => UNCHANGED <<unread_messages, unread_file, qa_dict, session>> ]_vars

(* C6 happens: the sheet write of an answer failed, the session is still   *)
(* pending, its responder's count is still above 0 and the question is     *)
(* still not in the corpus.                                                *)
C6_Witness ==
  /\ last.op = "teacher_post" /\ last.status = "append_error" /\ last.text # <<>>
  /\ Truthy(session[last.sid].unanswered_question)
  /\ unread_messages[session[last.sid].assigned_teacher[1]] > 0
  /\ session[last.sid].unanswered_question[1] \notin DOMAIN qa_dict

(* C7 as claimed: when the save of the unread counts fails, in home() or   *)
(* in teacher_input(), the unread counts, the corpus dict and the session  *)
(* are as they were before the request.                                    *)
C7_SaveFailureRollsBack ==
  [][ last'.status = "save_error"
      => UNCHANGED <<unread_messages, qa_dict, session>> ]_vars

(* C8 as claimed: whenever a request that changed the unread counts has   *)
(* completed, and no other request is in progress, the unread file holds   *)
(* the unread dict, also when the steps of two requests have interleaved.  *)
C8_FileEqualsMemory ==
  (last.status = "redirect" /\ \A s \in Sessions : thread[s].pc = "idle")
     => unread_file = Some(unread_messages)

(* C9 as claimed: no increment is lost: when the requests that submitted   *)
(* unmatched queries have ended and no answer was given meanwhile, every   *)
(* responder's unread count is the number of unmatched queries submitted   *)
(* for the responder.                                                      *)
C9_NoLostIncrement ==
  (sheet1 = InitialRows /\ \A s \in Sessions : thread[s].pc = "idle")
     => \A t \in Teachers : Get(unread_messages, t, 0) = routed[t]

(* C10 as claimed: the teacher page shows the session's pending question   *)
(* exactly when the session has one (a question with text) and the         *)
(* selected responder is the session's assigned responder, and shows none  *)
(* otherwise, whatever other sessions have done.                           *)
C10_PeekShowsPending ==
  \A s \in Sessions, t \in Selections :
     peek(s, t) = IF /\ Truthy(session[s].unanswered_question)
                     /\ t = session[s].assigned_teacher
                  THEN [assigned_teacher |-> session[s].assigned_teacher,
                        question |-> session[s].unanswered_question]
                  ELSE NoShow

(* The session's pending question and assigned responder. *)
PendingQuery(s) == <<session[s].unanswered_question, session[s].assigned_teacher>>

(* The same after the step. *)
PendingQueryAfter(s) == <<session'[s].unanswered_question, session'[s].assigned_teacher>>

(* C11: a session holds at most one pending query, and it moves Idle ->    *)
(* Pending -> Idle or Pending -> Pending: the pending question and the     *)
(* assigned responder are there together or not at all; they change only   *)
(* in the session of the request, and only by an unmatched submission,     *)
(* which sets both (the question submitted and its classified responder),  *)
(* or by an answer that succeeded, which clears both; after an answer that *)
(* succeeded the session has neither.                                      *)
C11_PendingLifecycle ==
  [][ /\ \A s \in Sessions :
           (session'[s].unanswered_question = None) = (session'[s].assigned_teacher = None)
      /\ \A s \in Sessions :
           PendingQueryAfter(s) # PendingQuery(s)
             => /\ last'.sid = s
                /\ \/ /\ last'.op = "home_post"
                      /\ last'.status \in {"redirect", "save_error"}
                      /\ PendingQueryAfter(s) =
                           <<Some(last'.text), Some(classify_query(last'.text).teacher)>>
                   \/ /\ last'.op = "teacher_post" /\ last'.status = "redirect"
                      /\ PendingQuery(s) # <<None, None>>
                      /\ PendingQueryAfter(s) = <<None, None>>
      /\ (last'.op = "teacher_post" /\ last'.status = "redirect")
           => PendingQueryAfter(last'.sid) = <<None, None>> ]_vars

(* C11 happens: a session's query for one responder was superseded by a    *)
(* query for another and that one answered, so the session is idle again   *)
(* while the first responder's count is still up with no session pending   *)
(* on it.                                                                  *)
C11_Witness ==
  /\ last.op = "teacher_post" /\ last.status = "redirect"
  /\ PendingQuery(last.sid) = <<None, None>>
  /\ \E t \in Teachers : unread_messages[t] > 0 /\ PendingOn(t) = {}

(* C12: a query that is a fixed-response key after strip() and lower() is  *)
(* answered with the key's canned response, whatever the corpus holds; and *)
(* a query answered by the fixed responses or by the corpus leaves every   *)
(* unread count (dict and file), the corpus (dict and sheet) and every     *)
(* session's pending query unchanged.                                      *)
C12_MatchedQueryChangesNothing ==
  [][ /\ (last'.op = "home_post" /\ last'.text \in CommonKeys)
           => /\ last'.status = "page"
              /\ \E i \in 1..Len(common_responses) :
                    /\ common_responses[i][1] = last'.text
                    /\ session'[last'.sid].bot_response = common_responses[i][2]
      /\ (last'.op = "home_post" /\ last'.status = "page")
           => /\ UNCHANGED <<unread_messages, unread_file, qa_dict, sheet1>>
              /\ \A s \in Sessions : PendingQueryAfter(s) = PendingQuery(s) ]_vars

(* C12 happens: a greeting that is also a question of the corpus was       *)
(* answered with the canned response while a session was pending and a     *)
(* responder's count up.                                                   *)
C12_Witness ==
  /\ last.op = "home_post" /\ last.status = "page"
  /\ last.text \in CommonKeys /\ last.text \in DOMAIN qa_dict
  /\ session[last.sid].bot_response # qa_dict[last.text]
  /\ \E s \in Sessions : Pending(s) /\ unread_messages[session[s].assigned_teacher[1]] > 0

(* C13 as claimed: a submission whose query text is a question of the      *)
(* corpus (and not a fixed-response key) is answered with the answer       *)
(* stored for that question and is not routed: no unread count changes     *)
(* and no pending query is made.                                           *)
C13_CorpusQuestionAnswered ==
  [][ \A q \in Queries \cap DOMAIN qa_dict :
        (last'.op = "home_post" /\ last'.text = Lower(Strip(q)) /\ last'.text \notin CommonKeys)
           => /\ last'.status = "page"
              /\ session'[last'.sid].bot_response = qa_dict[q]
              /\ unread_messages' = unread_messages
              /\ PendingQueryAfter(last'.sid) = PendingQuery(last'.sid) ]_vars

(* The domains, by their place in the declaration order of domain_keywords. *)
DomainPlaces == 1..Len(domain_keywords)

(* Some keyword of the domain at place d occurs in the lower-cased text. *)
KeywordOccurs(d, text) ==
  \E k \in 1..Len(domain_keywords[d].keywords) :
     Contains(domain_keywords[d].keywords[k], text)

(* C14: classify_query returns for every query a domain and the teacher    *)
(* labels gives for that domain; Student Affairs when no keyword occurs in *)
(* the lower-cased query; the domain whose keywords occur when those of    *)
(* exactly one domain do; and, when several domains have the highest count *)
(* above 0, the one of them that is earliest in declaration order.         *)
C14_ClassifyTotalAndOrdered ==
  last.op = "classify_query" =>
    LET text == Lower(last.text)
        hit == {d \in DomainPlaces : KeywordOccurs(d, text)}
        top == {d \in DomainPlaces : \A e \in DomainPlaces : last.counts[e] <= last.counts[d]}
    IN /\ last.status \in DOMAIN labels
       /\ last.teacher = labels[last.status]
       /\ hit = {} => last.status = "Student Affairs"
       /\ \A d \in DomainPlaces : hit = {d} => last.status = domain_keywords[d].domain
       /\ \A d \in top :
             (last.counts[d] > 0 /\ \A e \in top : d <= e)
                => last.status = domain_keywords[d].domain

(* C14 happens: a query with one keyword each of Admission and Migration   *)
(* and an upper-case keyword of Student Affairs, a three-way tie, was      *)
(* classified.                                                             *)
C14_Witness ==
  /\ last.op = "classify_query"
  /\ last.counts = <<1, 0, 1, 0, 1>>
  /\ last.status = "Admission"
  /\ \E i \in 1..Len(last.text) : last.text[i] = "C"

(* The occurrences of the keyword in the text from position i on, counted  *)
(* from left to right without overlap.                                     *)
RECURSIVE Occurrences(_, _, _)
Occurrences(keyword, text, i) ==
  IF i + Len(keyword) - 1 > Len(text) THEN 0
  ELSE IF SubSeq(text, i, i + Len(keyword) - 1) = keyword
       THEN 1 + Occurrences(keyword, text, i + Len(keyword))
       ELSE Occurrences(keyword, text, i + 1)

(* The occurrences in the text of the first n keywords of the list. *)
RECURSIVE OccurrenceScore(_, _, _)
OccurrenceScore(keywords, text, n) ==
  IF n = 0 THEN 0
  ELSE OccurrenceScore(keywords, text, n - 1) + Occurrences(keywords[n], text, 1)

(* C17 as claimed: the count of each domain is the number of occurrences   *)
(* of the domain's keywords in the lower-cased query, a keyword that       *)
(* occurs k times counting k, and the domain returned has the highest      *)
(* such count (when that is above 0).                                      *)
C17_ScoreCountsOccurrences ==
  last.op = "classify_query" =>
    LET text == Lower(last.text)
        score == [d \in DomainPlaces |->
                    OccurrenceScore(domain_keywords[d].keywords, text,
                                    Len(domain_keywords[d].keywords))]
    IN /\ \A d \in DomainPlaces : last.counts[d] = score[d]
       /\ \A d \in DomainPlaces :
             (last.status = domain_keywords[d].domain /\ \E e \in DomainPlaces : score[e] > 0)
                => \A e \in DomainPlaces : score[e] <= score[d]

(* C15: an answer stored for a question makes the corpus dict hold exactly *)
(* one entry for the question, with the answer just given, whether the     *)
(* dict held the question before (with the same or another answer) or not, *)
(* and changes no other entry.                                             *)
C15_LastWriteWins ==
  [][ ( /\ last'.op = "teacher_post" /\ last'.status \in {"redirect", "save_error"}
        /\ Truthy(session[last'.sid].unanswered_question) )
      => /\ DOMAIN qa_dict' = DOMAIN qa_dict \cup {session[last'.sid].unanswered_question[1]}
         /\ qa_dict'[session[last'.sid].unanswered_question[1]] = last'.text
         /\ \A k \in DOMAIN qa_dict \ {session[last'.sid].unanswered_question[1]} :
               qa_dict'[k] = qa_dict[k] ]_vars

(* C15 happens: two sessions pending on the same question were answered,   *)
(* the second with another answer, and the dict holds the second answer.   *)
C15_Witness ==
  /\ last.op = "teacher_post" /\ last.status = "redirect"
  /\ \E i \in 1..Len(sheet1) : \E j \in (i + 1)..Len(sheet1) :
        /\ sheet1[i][1] = sheet1[j][1]
        /\ sheet1[i][2] # sheet1[j][2]
        /\ sheet1[j][2] = last.text
        /\ qa_dict[sheet1[j][1]] = last.text

(* C16 as claimed: Sheet1 never holds two rows for the same question. *)
C16_OneRowPerQuestion ==
  \A i \in 1..Len(sheet1) : \A j \in 1..Len(sheet1) :
     i # j => sheet1[i][1] # sheet1[j][1]

(* C18: an unmatched submission that ends in the redirect raises the count *)
(* of the responder classify_query gives for the question by exactly 1 and *)
(* leaves every other count as it was; an answer that ends in the redirect *)
(* sets the count of the session's assigned responder to 0 and leaves      *)
(* every other count as it was.                                            *)
C18_CountFrame ==
  [][ /\ (last'.op = "home_post" /\ last'.status = "redirect")
           => /\ DOMAIN unread_messages' = DOMAIN unread_messages
              /\ \A t \in DOMAIN unread_messages :
                    unread_messages'[t] =
                       IF t = classify_query(last'.text).teacher
                       THEN unread_messages[t] + 1 ELSE unread_messages[t]
      /\ ( /\ last'.op = "teacher_post" /\ last'.status = "redirect"
           /\ TruthyName(session[last'.sid].assigned_teacher) )
           => /\ DOMAIN unread_messages' = DOMAIN unread_messages
              /\ \A t \in DOMAIN unread_messages :
                    unread_messages'[t] =
                       IF Some(t) = session[last'.sid].assigned_teacher
                       THEN 0 ELSE unread_messages[t] ]_vars

(* C18 happens: an answer reset one responder's count while another        *)
(* session stayed pending on another responder, whose count is as it was.  *)
C18_Witness ==
  /\ last.op = "teacher_post" /\ last.status = "redirect"
  /\ \E t \in Teachers : unread_messages[t] > 0 /\ PendingOn(t) # {}
  /\ Len(sheet1) > Len(InitialRows)

(* C19 as claimed: a responder's count goes down only by an answer that    *)
(* succeeded in a session whose pending query is assigned to the           *)
(* responder; and when a session pending on responder t submits an         *)
(* unmatched query that is routed to another responder u, the count of t   *)
(* stays as it is and the session is then assigned to u.                   *)
C19_CountDropsOnlyByAnswer ==
  [][ /\ \A t \in Teachers :
           unread_messages'[t] < unread_messages[t]
             => /\ last'.op = "teacher_post" /\ last'.status = "redirect"
                /\ session[last'.sid].assigned_teacher = Some(t)
      /\ \A t \in Teachers :
           ( /\ last'.op = "home_post" /\ last'.status = "redirect"
             /\ session[last'.sid].assigned_teacher = Some(t)
             /\ classify_query(last'.text).teacher # t )
             => /\ unread_messages'[t] = unread_messages[t]
                /\ session'[last'.sid].assigned_teacher # Some(t) ]_vars

=============================================================================
